---- MODULE Spec2Model ----
(***************************************************************************)
(* The indexed ring-buffer store of slv (input/src/index.rs) together with *)
(* the IndexMethod / FieldCondition types of proto/src/lib.rs.             *)
(*                                                                         *)
(* Store.push is modelled one critical section at a time: every action of  *)
(* a writer is the code that runs under one lock acquisition, in the order *)
(* Store::push takes the locks.  The registry of secondary indices only    *)
(* grows; the operation that inserts into it is not part of the source     *)
(* tree and is modelled from the specification (section 4.4).              *)
(***************************************************************************)
EXTENDS Integers, Sequences, FiniteSets, TLC

VARIABLES
    buffer,       \* Store.buffer: [start_index, bound, deque]
    raw_index,    \* Store.raw_index: VecDeque<MessageId>
    indices,      \* Store.indices: IndexMethod -> Index.queue
    pc,           \* per writer: position inside Store::push
    message,      \* per writer: the argument of Store::push
    target,       \* per writer: IndexTarget still to be served by the running loop
    push_result,  \* per writer: PushResult of MessageBuffer::push
    fault,        \* the panic raised by a failed assertion, "none" if none
    pushed,       \* history: the entries admitted by MessageBuffer::push, in order
    begun,        \* history: number of Store::push calls started
    regAt,        \* history: IndexMethod -> value of begun when it was registered
    held,         \* per thread: the lock guards it holds
    keys,         \* the reader: None or Some(value returned by Store::list_indices)
    m_units,      \* matcher harness: the condition list as supplied
    m_conds,      \* matcher harness: a condition list
    m_fields,     \* matcher harness: the fields of a JsonEntry
    m_stage,      \* matcher harness: "units" (as supplied) or "method" (after IndexMethod::new)
    m_result,     \* matcher harness: None or Some(value returned by should_index)
    l_input,      \* line reader: the bytes of the input not read yet
    l_line,       \* line reader: the bytes of the last line read (buf)
    l_entry,      \* line reader: None or Some(Entry returned by parse_entry)
    c_in,         \* connection: the websocket frames the client still sends
    c_state,      \* connection: position of handle_raw
    c_first,      \* connection history: None or Some(first client message decoded)
    c_recvq,      \* connection: channel recv_tx -> recv_rx (client messages)
    c_sendq,      \* connection: channel send_tx -> send_rx (server messages)
    c_out,        \* connection: None or Some(the message send_msg is writing)
    c_sent,       \* connection: the server messages written to the socket
    c_session,    \* connection: state of the spawned session::handle task
    ix_queue,     \* index harness: Index.queue
    ix_before,    \* index harness history: Index.queue before the last call
    ix_id,        \* index harness: the argument of the last call
    ix_op,        \* index harness: the last call, "none", "add" or "remove"
    ix_fault      \* index harness: the panic of the last call, "none" if none

storeVars == <<buffer, raw_index, indices, pc, message, target, push_result,
               fault, pushed, begun, regAt>>
matchVars == <<m_units, m_conds, m_fields, m_stage, m_result>>
lineVars == <<l_input, l_line, l_entry>>
connVars == <<c_in, c_state, c_first, c_recvq, c_sendq, c_out, c_sent, c_session>>
indexVars == <<ix_queue, ix_before, ix_id, ix_op, ix_fault>>
\* what an action of the store leaves alone besides the guards held
harnessVars == <<keys, m_units, m_conds, m_fields, m_stage, m_result,
                 l_input, l_line, l_entry,
                 c_in, c_state, c_first, c_recvq, c_sendq, c_out, c_sent, c_session,
                 ix_queue, ix_before, ix_id, ix_op, ix_fault>>
vars == <<buffer, raw_index, indices, pc, message, target, push_result,
          fault, pushed, begun, regAt, held, keys,
          m_units, m_conds, m_fields, m_stage, m_result,
          l_input, l_line, l_entry,
          c_in, c_state, c_first, c_recvq, c_sendq, c_out, c_sent, c_session,
          ix_queue, ix_before, ix_id, ix_op, ix_fault>>

----------------------------------------------------------------------------
(* Bounds of the model *)

MaxBound == 2
MaxPush == 4
MaxConds == 2
MaxFields == 3
MaxLine == 4        \* bytes of input given to the line reader
MaxFrames == 3      \* websocket frames a client sends on one connection
MaxId == 3          \* largest MessageId handed to the Index of the harness

----------------------------------------------------------------------------
(* Strings: str::cmp is byte-lexicographic; StrOrder lists the strings the  *)
(* model uses in that order.                                                *)

StrOrder == <<"1", "2", "3", "a", "b", "c", "error", "info", "level", "msg", "x">>

StrRank(s) == CHOOSE i \in 1..Len(StrOrder) : StrOrder[i] = s

str_cmp(x, y) ==
    IF StrRank(x) < StrRank(y) THEN "Less"
    ELSE IF StrRank(x) > StrRank(y) THEN "Greater"
    ELSE "Equal"

----------------------------------------------------------------------------
(* proto/src/lib.rs *)

HasKey(k) == <<"HasKey", k>>
KeyValue(k, v) == <<"KeyValue", k, v>>

\* FieldCondition::key
key(unit) == unit[2]

\* discriminant of the enum variant, in declaration order
variant_index(unit) == IF unit[1] = "HasKey" THEN 0 ELSE 1

\* #[derive(PartialOrd, Ord)] on FieldCondition: the variant first, then the
\* variant's fields from left to right
cond_cmp(x, y) ==
    IF variant_index(x) < variant_index(y) THEN "Less"
    ELSE IF variant_index(x) > variant_index(y) THEN "Greater"
    ELSE IF str_cmp(x[2], y[2]) # "Equal" THEN str_cmp(x[2], y[2])
    ELSE IF x[1] = "HasKey" THEN "Equal"
    ELSE str_cmp(x[3], y[3])

\* insertion of unit into an already sorted list, after the elements that
\* are not greater (Vec::sort is stable)
RECURSIVE sort_insert(_, _)
sort_insert(sorted, unit) ==
    IF sorted = <<>> THEN <<unit>>
    ELSE IF cond_cmp(unit, Head(sorted)) = "Less" THEN <<unit>> \o sorted
    ELSE <<Head(sorted)>> \o sort_insert(Tail(sorted), unit)

RECURSIVE sort_units(_)
sort_units(units) ==
    IF units = <<>> THEN <<>>
    ELSE sort_insert(sort_units(SubSeq(units, 1, Len(units) - 1)), units[Len(units)])

\* a plausible slip: the units are not sorted
IndexMethod_new_unsorted(units) == units

\* IndexMethod::new: the method is its sorted condition sequence
IndexMethod_new(units) == sort_units(units)

JsonEntry(fields) == [kind |-> "Json", fields |-> fields]
RawEntry(bytes) == [kind |-> "Raw", bytes |-> bytes]

----------------------------------------------------------------------------
(* input/src/index.rs: should_index *)

\* the `loop` of should_index for one unit.  The loop body has no `break`:
\* after an Equal field that passes the unit's test the loop runs again for
\* the same unit, so the loop is left by `return false` only.
RECURSIVE scan_loop(_, _)
scan_loop(unit, fields) ==
    IF fields = <<>> THEN FALSE
    ELSE LET first == Head(fields)
             rest == Tail(fields)
             ord == str_cmp(first[1], key(unit))
         IN  IF ord = "Less" THEN scan_loop(unit, rest)
             ELSE IF ord = "Greater" THEN FALSE
             ELSE IF unit[1] = "KeyValue" /\ first[2] # unit[3] THEN FALSE
             ELSE scan_loop(unit, rest)

\* a plausible slip: running out of fields reports a match
RECURSIVE scan_loop_exhausted_true(_, _)
scan_loop_exhausted_true(unit, fields) ==
    IF fields = <<>> THEN TRUE
    ELSE LET first == Head(fields)
             rest == Tail(fields)
             ord == str_cmp(first[1], key(unit))
         IN  IF ord = "Less" THEN scan_loop_exhausted_true(unit, rest)
             ELSE IF ord = "Greater" THEN FALSE
             ELSE IF unit[1] = "KeyValue" /\ first[2] # unit[3] THEN FALSE
             ELSE scan_loop_exhausted_true(unit, rest)

should_index_exhausted_true(conditions, fields) ==
    IF conditions = <<>> THEN TRUE
    ELSE scan_loop_exhausted_true(conditions[1], fields)

\* should_index: `true` is reached only when the `for` runs to its end, and
\* the first unit's loop never ends without returning
should_index(conditions, fields) ==
    IF conditions = <<>> THEN TRUE
    ELSE scan_loop(conditions[1], fields)

----------------------------------------------------------------------------
(* input/src/index.rs: MessageBuffer *)

None == <<>>
Some(x) == <<x>>

MessageBuffer_new(bound) == [start_index |-> 0, bound |-> bound, deque |-> <<>>]

\* a plausible slip: the id is the offset in the deque, start_index forgotten
MessageBuffer_push_offset_id(buf, msg) ==
    IF ~(Len(buf.deque) <= buf.bound)
    THEN [panic |-> "assert len <= bound", buffer |-> buf, added |-> 0, removed |-> None]
    ELSE IF Len(buf.deque) = buf.bound
    THEN IF buf.deque = <<>>
         THEN [panic |-> "bound > 0",
               buffer |-> [buf EXCEPT !.start_index = @ + 1],
               added |-> 0, removed |-> None]
         ELSE [panic |-> "none",
               buffer |-> [buf EXCEPT !.start_index = @ + 1,
                                      !.deque = Append(Tail(@), msg)],
               added |-> Len(buf.deque) - 1,
               removed |-> Some(<<buf.start_index, Head(buf.deque)>>)]
    ELSE [panic |-> "none",
          buffer |-> [buf EXCEPT !.deque = Append(@, msg)],
          added |-> Len(buf.deque),
          removed |-> None]

\* a plausible slip: the newest entry is evicted instead of the oldest
MessageBuffer_push_pop_back(buf, msg) ==
    IF ~(Len(buf.deque) <= buf.bound)
    THEN [panic |-> "assert len <= bound", buffer |-> buf, added |-> 0, removed |-> None]
    ELSE IF Len(buf.deque) = buf.bound
    THEN IF buf.deque = <<>>
         THEN [panic |-> "bound > 0",
               buffer |-> [buf EXCEPT !.start_index = @ + 1],
               added |-> 0, removed |-> None]
         ELSE [panic |-> "none",
               buffer |-> [buf EXCEPT !.start_index = @ + 1,
                                      !.deque = Append(SubSeq(@, 1, Len(@) - 1), msg)],
               added |-> buf.start_index + 1 + (Len(buf.deque) - 1),
               removed |-> Some(<<buf.start_index, buf.deque[Len(buf.deque)]>>)]
    ELSE [panic |-> "none",
          buffer |-> [buf EXCEPT !.deque = Append(@, msg)],
          added |-> buf.start_index + Len(buf.deque),
          removed |-> None]

\* a plausible slip: eviction starts one entry late (`>` for `==`)
MessageBuffer_push_late_evict(buf, msg) ==
    IF Len(buf.deque) > buf.bound
    THEN [panic |-> "none",
          buffer |-> [buf EXCEPT !.start_index = @ + 1,
                                 !.deque = Append(Tail(@), msg)],
          added |-> buf.start_index + 1 + (Len(buf.deque) - 1),
          removed |-> Some(<<buf.start_index, Head(buf.deque)>>)]
    ELSE [panic |-> "none",
          buffer |-> [buf EXCEPT !.deque = Append(@, msg)],
          added |-> buf.start_index + Len(buf.deque),
          removed |-> None]

\* MessageBuffer::push.  `panic` names the assertion that failed, the buffer
\* is returned as the unwinding leaves it.
MessageBuffer_push(buf, msg) ==
    IF ~(Len(buf.deque) <= buf.bound)
    THEN [panic |-> "assert len <= bound", buffer |-> buf, added |-> 0, removed |-> None]
    ELSE IF Len(buf.deque) = buf.bound
    THEN IF buf.deque = <<>>
         THEN \* start_index.0 += 1 has run when pop_front().expect("bound > 0") fails
              [panic |-> "bound > 0",
               buffer |-> [buf EXCEPT !.start_index = @ + 1],
               added |-> 0, removed |-> None]
         ELSE [panic |-> "none",
               buffer |-> [buf EXCEPT !.start_index = @ + 1,
                                      !.deque = Append(Tail(@), msg)],
               added |-> buf.start_index + 1 + (Len(buf.deque) - 1),
               removed |-> Some(<<buf.start_index, Head(buf.deque)>>)]
    ELSE [panic |-> "none",
          buffer |-> [buf EXCEPT !.deque = Append(@, msg)],
          added |-> buf.start_index + Len(buf.deque),
          removed |-> None]

----------------------------------------------------------------------------
(* input/src/index.rs: Index *)

\* a plausible slip: the id is pushed at the front of the queue
Index_add_push_front(queue, id) ==
    IF queue # <<>> /\ ~(queue[Len(queue)] < id)
    THEN [panic |-> "assert last < id", queue |-> queue]
    ELSE [panic |-> "none", queue |-> <<id>> \o queue]

\* Index::add
Index_add(queue, id) ==
    IF queue # <<>> /\ ~(queue[Len(queue)] < id)
    THEN [panic |-> "assert last < id", queue |-> queue]
    ELSE [panic |-> "none", queue |-> Append(queue, id)]

\* a plausible slip: the stale head is never popped
Index_remove_keep(queue, id) ==
    IF queue = <<>> \/ Head(queue) > id
    THEN [panic |-> "none", queue |-> queue]
    ELSE IF Head(queue) # id
    THEN [panic |-> "index contains obsolete message", queue |-> queue]
    ELSE [panic |-> "none", queue |-> queue]

\* a plausible slip: an index created after the id was pushed is not
\* tolerated, any non-empty queue must have the id at its head
Index_remove_strict(queue, id) ==
    IF queue = <<>>
    THEN [panic |-> "none", queue |-> queue]
    ELSE IF Head(queue) # id
    THEN [panic |-> "index contains obsolete message", queue |-> queue]
    ELSE [panic |-> "none", queue |-> Tail(queue)]

\* Index::remove
Index_remove(queue, id) ==
    IF queue = <<>> \/ Head(queue) > id
    THEN [panic |-> "none", queue |-> queue]
    ELSE IF Head(queue) # id
    THEN [panic |-> "index contains obsolete message", queue |-> queue]
    ELSE [panic |-> "none", queue |-> Tail(queue)]

----------------------------------------------------------------------------
(* input/src/index.rs: Store *)

Threads == {"w1", "w2"}

\* the task that calls Store::list_indices (input/src/session.rs)
Readers == {"r1"}

\* the single ingestion writer (input/src/lib.rs hands Store::push to one
\* watch loop)
SingleWriter == {"w1"}

NoTarget == [kind |-> "Raw", matched |-> {}]
NoResult == [added |-> 0, removed |-> None]
NoMessage == RawEntry("")

\* the entries the writers push
StoreEntries ==
    { RawEntry("not json"),
      JsonEntry(<< <<"a", "1">> >>),
      JsonEntry(<< <<"b", "2">> >>) }

\* the methods that get registered
StoreMethods ==
    { IndexMethod_new(<<>>),
      IndexMethod_new(<<HasKey("a")>>) }

\* Store::new
Store_new(buffer_size) ==
    [buffer |-> MessageBuffer_new(buffer_size),
     raw_index |-> <<>>,
     indices |-> [m \in {} |-> <<>>]]

\* the orders in which the elements of S can be laid out in a Vec
Orderings(S) ==
    { f \in [1..Cardinality(S) -> S] :
        \A i, j \in 1..Cardinality(S) : i # j => f[i] # f[j] }

\* a plausible slip: the snapshot loses one of the keys
list_indices_drop_one(inds) ==
    IF DOMAIN inds = {} THEN { <<>> }
    ELSE UNION { Orderings(DOMAIN inds \ {m}) : m \in DOMAIN inds }

\* Store::list_indices, under the read lock of the registry: the keys of
\* the HashMap collected in its iteration order, which is arbitrary, so the
\* result is any one of the orderings of the keys.
list_indices(inds) == Orderings(DOMAIN inds)

\* a plausible slip: the Raw arm is missing, raw entries are matched with no fields
index_target_no_raw_arm(inds, msg) ==
    [kind |-> "Json",
     matched |-> {m \in DOMAIN inds :
                    should_index(m, IF msg.kind = "Json" THEN msg.fields ELSE <<>>)}]

\* Store::index_target, under the read lock of the registry.  `matched` is
\* collected in the iteration order of the HashMap, which is arbitrary: it
\* is kept as a set and served in any order.
index_target(inds, msg) ==
    IF msg.kind = "Raw" THEN [kind |-> "Raw", matched |-> {}]
    ELSE [kind |-> "Json",
          matched |-> {m \in DOMAIN inds : should_index(m, msg.fields)}]

\* where Store::push goes once add_to_index has returned
AfterAdd(t) == IF push_result[t].removed = None THEN "idle" ELSE "rm_target"

\* Store::push, line 24: the target of the new message
PushBegin(t, e) ==
    /\ pc[t] = "idle"
    /\ begun < MaxPush
    /\ message' = [message EXCEPT ![t] = e]
    /\ target' = [target EXCEPT ![t] = index_target(indices, e)]
    /\ pc' = [pc EXCEPT ![t] = "buffer"]
    /\ begun' = begun + 1
    /\ UNCHANGED <<buffer, raw_index, indices, push_result, fault, pushed, regAt>>
    /\ UNCHANGED harnessVars

\* a plausible slip: the evicted id is removed first and the new id is
\* never added when an entry was evicted
BufferPush_remove_first(t) ==
    /\ pc[t] = "buffer"
    /\ LET r == MessageBuffer_push(buffer, message[t])
       IN  /\ buffer' = r.buffer
           /\ IF r.panic # "none"
              THEN /\ fault' = r.panic
                   /\ pc' = [pc EXCEPT ![t] = "panicked"]
                   /\ UNCHANGED <<push_result, pushed>>
              ELSE /\ push_result' = [push_result EXCEPT
                                        ![t] = [added |-> r.added, removed |-> r.removed]]
                   /\ pushed' = Append(pushed, message[t])
                   /\ pc' = [pc EXCEPT ![t] = IF r.removed = None THEN "add"
                                                ELSE "rm_target"]
                   /\ UNCHANGED fault
    /\ UNCHANGED <<raw_index, indices, message, target, begun, regAt>>
    /\ UNCHANGED harnessVars

\* Store::push, lines 26-29: MessageBuffer::push under the buffer's write lock
BufferPush(t) ==
    /\ pc[t] = "buffer"
    /\ LET r == MessageBuffer_push(buffer, message[t])
       IN  /\ buffer' = r.buffer
           /\ IF r.panic # "none"
              THEN /\ fault' = r.panic
                   /\ pc' = [pc EXCEPT ![t] = "panicked"]
                   /\ UNCHANGED <<push_result, pushed>>
              ELSE /\ push_result' = [push_result EXCEPT
                                        ![t] = [added |-> r.added, removed |-> r.removed]]
                   /\ pushed' = Append(pushed, message[t])
                   /\ pc' = [pc EXCEPT ![t] = "add"]
                   /\ UNCHANGED fault
    /\ UNCHANGED <<raw_index, indices, message, target, begun, regAt>>
    /\ UNCHANGED harnessVars

\* Store::add_to_index, IndexTarget::Raw
AddRaw(t) ==
    /\ pc[t] = "add"
    /\ target[t].kind = "Raw"
    /\ raw_index' = Append(raw_index, push_result[t].added)
    /\ pc' = [pc EXCEPT ![t] = AfterAdd(t)]
    /\ push_result' = [push_result EXCEPT
                         ![t] = IF AfterAdd(t) = "idle" THEN NoResult ELSE @]
    /\ message' = [message EXCEPT ![t] = IF AfterAdd(t) = "idle" THEN NoMessage ELSE @]
    /\ target' = [target EXCEPT ![t] = NoTarget]
    /\ UNCHANGED <<buffer, indices, fault, pushed, begun, regAt>>
    /\ UNCHANGED harnessVars

\* Store::add_to_index, IndexTarget::Json: one turn of the loop, one index
\* write-locked
AddJsonAt(t, m) ==
    /\ pc[t] = "add"
    /\ target[t].kind = "Json"
    /\ m \in target[t].matched
    /\ LET r == Index_add(indices[m], push_result[t].added)
       IN  /\ indices' = [indices EXCEPT ![m] = r.queue]
           /\ target' = [target EXCEPT ![t].matched = @ \ {m}]
           /\ IF r.panic # "none"
              THEN /\ fault' = r.panic
                   /\ pc' = [pc EXCEPT ![t] = "panicked"]
              ELSE UNCHANGED <<fault, pc>>
    /\ UNCHANGED <<buffer, raw_index, message, push_result, pushed, begun, regAt>>
    /\ UNCHANGED harnessVars

AddJson(t) == \E m \in target[t].matched : AddJsonAt(t, m)

\* Store::add_to_index, IndexTarget::Json: the loop is over
AddDone(t) ==
    /\ pc[t] = "add"
    /\ target[t].kind = "Json"
    /\ target[t].matched = {}
    /\ pc' = [pc EXCEPT ![t] = AfterAdd(t)]
    /\ push_result' = [push_result EXCEPT
                         ![t] = IF AfterAdd(t) = "idle" THEN NoResult ELSE @]
    /\ message' = [message EXCEPT ![t] = IF AfterAdd(t) = "idle" THEN NoMessage ELSE @]
    /\ target' = [target EXCEPT ![t] = NoTarget]
    /\ UNCHANGED <<buffer, raw_index, indices, fault, pushed, begun, regAt>>
    /\ UNCHANGED harnessVars

\* Store::remove_from_index, line 74: the target of the removed message
RemoveTarget(t) ==
    /\ pc[t] = "rm_target"
    /\ target' = [target EXCEPT
                    ![t] = index_target(indices, push_result[t].removed[1][2])]
    /\ pc' = [pc EXCEPT ![t] = "remove"]
    /\ UNCHANGED <<buffer, raw_index, indices, message, push_result, fault,
                   pushed, begun, regAt>>
    /\ UNCHANGED harnessVars

\* Store::remove_from_index, IndexTarget::Raw
RemoveRaw(t) ==
    /\ pc[t] = "remove"
    /\ target[t].kind = "Raw"
    /\ IF raw_index # <<>> /\ Head(raw_index) = push_result[t].removed[1][1]
       THEN /\ raw_index' = Tail(raw_index)
            /\ pc' = [pc EXCEPT ![t] = "idle"]
            /\ push_result' = [push_result EXCEPT ![t] = NoResult]
            /\ message' = [message EXCEPT ![t] = NoMessage]
            /\ target' = [target EXCEPT ![t] = NoTarget]
            /\ UNCHANGED fault
       ELSE /\ fault' = "raw index inconsistency"
            /\ pc' = [pc EXCEPT ![t] = "panicked"]
            /\ UNCHANGED <<raw_index, push_result, message, target>>
    /\ UNCHANGED <<buffer, indices, pushed, begun, regAt>>
    /\ UNCHANGED harnessVars

\* Store::remove_from_index, IndexTarget::Json: one turn of the loop
RemoveJsonAt(t, m) ==
    /\ pc[t] = "remove"
    /\ target[t].kind = "Json"
    /\ m \in target[t].matched
    /\ LET r == Index_remove(indices[m], push_result[t].removed[1][1])
       IN  /\ indices' = [indices EXCEPT ![m] = r.queue]
           /\ target' = [target EXCEPT ![t].matched = @ \ {m}]
           /\ IF r.panic # "none"
              THEN /\ fault' = r.panic
                   /\ pc' = [pc EXCEPT ![t] = "panicked"]
              ELSE UNCHANGED <<fault, pc>>
    /\ UNCHANGED <<buffer, raw_index, message, push_result, pushed, begun, regAt>>
    /\ UNCHANGED harnessVars

RemoveJson(t) == \E m \in target[t].matched : RemoveJsonAt(t, m)

\* Store::remove_from_index, IndexTarget::Json: the loop is over, push returns
RemoveDone(t) ==
    /\ pc[t] = "remove"
    /\ target[t].kind = "Json"
    /\ target[t].matched = {}
    /\ pc' = [pc EXCEPT ![t] = "idle"]
    /\ push_result' = [push_result EXCEPT ![t] = NoResult]
    /\ message' = [message EXCEPT ![t] = NoMessage]
    /\ target' = [target EXCEPT ![t] = NoTarget]
    /\ UNCHANGED <<buffer, raw_index, indices, fault, pushed, begun, regAt>>
    /\ UNCHANGED harnessVars

\* Registration of a new IndexMethod (specification, section 4.4): a method
\* that is not registered yet gets an empty index
Register(m) ==
    /\ m \notin DOMAIN indices
    /\ indices' = [x \in DOMAIN indices \cup {m} |->
                     IF x = m THEN <<>> ELSE indices[x]]
    /\ regAt' = [x \in DOMAIN indices \cup {m} |->
                     IF x = m THEN begun ELSE regAt[x]]
    /\ UNCHANGED <<buffer, raw_index, pc, message, target, push_result, fault,
                   pushed, begun>>
    /\ UNCHANGED harnessVars

\* no call has been made on the Index of the harness
IndexIdle ==
    /\ ix_queue = <<>>
    /\ ix_before = <<>>
    /\ ix_id = 0
    /\ ix_op = "none"
    /\ ix_fault = "none"

\* no line has been read
LineIdle ==
    /\ l_input = <<>>
    /\ l_line = <<>>
    /\ l_entry = None

\* no connection has been accepted
ConnIdle ==
    /\ c_in = <<>>
    /\ c_state = "none"
    /\ c_first = None
    /\ c_recvq = <<>>
    /\ c_sendq = <<>>
    /\ c_out = None
    /\ c_sent = <<>>
    /\ c_session = "none"

MatchIdle ==
    /\ m_units = <<>>
    /\ m_conds = <<>>
    /\ m_fields = <<>>
    /\ m_stage = "units"
    /\ m_result = None

Init ==
    /\ \E buffer_size \in 0..MaxBound :
          LET store == Store_new(buffer_size)
          IN  /\ buffer = store.buffer
              /\ raw_index = store.raw_index
              /\ indices = store.indices
    /\ pc = [t \in Threads |-> "idle"]
    /\ message = [t \in Threads |-> NoMessage]
    /\ target = [t \in Threads |-> NoTarget]
    /\ push_result = [t \in Threads |-> NoResult]
    /\ fault = "none"
    /\ pushed = <<>>
    /\ begun = 0
    /\ regAt = [m \in {} |-> 0]
    /\ held = [t \in Threads \cup Readers |-> {}]
    /\ keys = None
    /\ MatchIdle
    /\ LineIdle
    /\ IndexIdle
    /\ ConnIdle

WriterStep(t) ==
    \/ \E e \in StoreEntries : PushBegin(t, e)
    \/ BufferPush(t)
    \/ AddRaw(t)
    \/ AddJson(t)
    \/ AddDone(t)
    \/ RemoveTarget(t)
    \/ RemoveRaw(t)
    \/ RemoveJson(t)
    \/ RemoveDone(t)

\* the critical sections of the single writer and the registrations, each
\* taken as one step
Next ==
    \/ \E t \in SingleWriter : WriterStep(t) /\ UNCHANGED held
    \/ \E m \in StoreMethods : Register(m) /\ UNCHANGED held

Spec == Init /\ [][Next]_vars

----------------------------------------------------------------------------
(* The store with a bound of 2, fed the lines {"a":"1"}, {"a":"2"},        *)
(* {"a":"3"} and `not json` in any order, with an index on HasKey("a").    *)

ScenarioEntries ==
    { JsonEntry(<< <<"a", "1">> >>),
      JsonEntry(<< <<"a", "2">> >>),
      JsonEntry(<< <<"a", "3">> >>),
      RawEntry("not json") }

ScenarioMethod == IndexMethod_new(<<HasKey("a")>>)

InitScenario ==
    /\ LET store == Store_new(2)
       IN  /\ buffer = store.buffer
           /\ raw_index = store.raw_index
           /\ indices = store.indices
    /\ pc = [t \in Threads |-> "idle"]
    /\ message = [t \in Threads |-> NoMessage]
    /\ target = [t \in Threads |-> NoTarget]
    /\ push_result = [t \in Threads |-> NoResult]
    /\ fault = "none"
    /\ pushed = <<>>
    /\ begun = 0
    /\ regAt = [m \in {} |-> 0]
    /\ held = [t \in Threads \cup Readers |-> {}]
    /\ keys = None
    /\ MatchIdle
    /\ LineIdle
    /\ IndexIdle
    /\ ConnIdle

ScenarioStep(t) ==
    \/ \E e \in ScenarioEntries : PushBegin(t, e)
    \/ BufferPush(t)
    \/ AddRaw(t)
    \/ AddJson(t)
    \/ AddDone(t)
    \/ RemoveTarget(t)
    \/ RemoveRaw(t)
    \/ RemoveJson(t)
    \/ RemoveDone(t)

NextScenario ==
    \/ \E t \in SingleWriter : ScenarioStep(t) /\ UNCHANGED held
    \/ Register(ScenarioMethod) /\ UNCHANGED held

SpecScenario == InitScenario /\ [][NextScenario]_vars

StoreIdle ==
    /\ buffer = MessageBuffer_new(1)
    /\ raw_index = <<>>
    /\ indices = [m \in {} |-> <<>>]
    /\ pc = [t \in Threads |-> "idle"]
    /\ message = [t \in Threads |-> NoMessage]
    /\ target = [t \in Threads |-> NoTarget]
    /\ push_result = [t \in Threads |-> NoResult]
    /\ fault = "none"
    /\ pushed = <<>>
    /\ begun = 0
    /\ regAt = [m \in {} |-> 0]
    /\ held = [t \in Threads \cup Readers |-> {}]
    /\ keys = None

----------------------------------------------------------------------------
(* The locks of the Store.  A guard names its lock and its mode; `held`    *)
(* gives the guards each thread holds.                                     *)

RegistryLock == <<"indices", <<>>>>
BufferLock == <<"buffer", <<>>>>
RawLock == <<"raw_index", <<>>>>
IndexLock(m) == <<"index", m>>

Guard(l, mode) == [lock |-> l, mode |-> mode]

\* parking_lot::RwLock: any number of readers or one writer, not reentrant
CanLock(t, l, mode) ==
    /\ \A g \in held[t] : g.lock # l
    /\ \A u \in (Threads \cup Readers) \ {t} :
          \A g \in held[u] : g.lock = l => (g.mode = "read" /\ mode = "read")

RegistryFree ==
    \A u \in Threads \cup Readers : \A g \in held[u] : g.lock # RegistryLock

----------------------------------------------------------------------------
(* Store::push with its lock acquisitions as steps of their own: a guard   *)
(* is taken in one step, and the critical section it protects runs and     *)
(* drops it in the next.                                                   *)

\* a plausible slip: the guard of the buffer is not scoped to a block of
\* its own and lives on to the end of push
drop_guard_buffer_kept(guards, g) ==
    IF g.lock = BufferLock THEN guards ELSE guards \ {g}

\* the guard g goes out of scope
drop_guard(guards, g) == guards \ {g}

\* the guards the code of thread t takes next, from where it stands
NextGuards(t) ==
    IF pc[t] = "idle" /\ begun < MaxPush
        THEN {Guard(RegistryLock, "read")}
    ELSE IF pc[t] = "buffer"
        THEN {Guard(BufferLock, "write")}
    ELSE IF pc[t] \in {"add", "remove"}
        THEN IF target[t].kind = "Raw"
             THEN {Guard(RawLock, "write")}
             ELSE {Guard(IndexLock(m), "write") : m \in target[t].matched}
    ELSE IF pc[t] = "rm_target" /\ push_result[t].removed[1][2].kind = "Json"
        THEN {Guard(RegistryLock, "read")}
    ELSE {}

\* `.read()` or `.write()` on one of the locks
Acquire(t) ==
    /\ \E g \in NextGuards(t) :
          /\ CanLock(t, g.lock, g.mode)
          /\ held' = [held EXCEPT ![t] = @ \cup {g}]
    /\ UNCHANGED <<indexVars, storeVars, keys, matchVars, lineVars, connVars>>

\* the critical section under g ends and g is dropped
Release(t, g) ==
    /\ g \in held[t]
    /\ held' = [held EXCEPT ![t] = drop_guard(@, g)]

\* index_target takes the read lock of the registry in its Json arm only
TargetUnder(t, e) ==
    IF e.kind = "Json"
    THEN Release(t, Guard(RegistryLock, "read"))
    ELSE Guard(RegistryLock, "read") \notin held[t] /\ UNCHANGED held

LockedStep(t) ==
    \/ \E e \in StoreEntries : PushBegin(t, e) /\ TargetUnder(t, e)
    \/ BufferPush(t) /\ Release(t, Guard(BufferLock, "write"))
    \/ AddRaw(t) /\ Release(t, Guard(RawLock, "write"))
    \/ \E m \in DOMAIN indices :
          AddJsonAt(t, m) /\ Release(t, Guard(IndexLock(m), "write"))
    \/ AddDone(t) /\ UNCHANGED held
    \/ RemoveTarget(t) /\ TargetUnder(t, push_result[t].removed[1][2])
    \/ RemoveRaw(t) /\ Release(t, Guard(RawLock, "write"))
    \/ \E m \in DOMAIN indices :
          RemoveJsonAt(t, m) /\ Release(t, Guard(IndexLock(m), "write"))
    \/ RemoveDone(t) /\ UNCHANGED held

NextLocks ==
    \/ \E t \in SingleWriter : Acquire(t)
    \/ \E t \in SingleWriter : LockedStep(t)
    \/ \E m \in StoreMethods : RegistryFree /\ Register(m) /\ UNCHANGED held

SpecLocks == Init /\ [][NextLocks]_vars

----------------------------------------------------------------------------
(* Store::list_indices called by a reader while the writer pushes.         *)

\* `let indices = self.indices.read();`
ListBegin(r) ==
    /\ held[r] = {}
    /\ CanLock(r, RegistryLock, "read")
    /\ held' = [held EXCEPT ![r] = {Guard(RegistryLock, "read")}]
    /\ UNCHANGED <<indexVars, storeVars, keys, matchVars, lineVars, connVars>>

\* `indices.keys().cloned().collect()` and the drop of the guard
ListCollect(r) ==
    /\ Guard(RegistryLock, "read") \in held[r]
    /\ \E ks \in list_indices(indices) : keys' = Some(ks)
    /\ held' = [held EXCEPT ![r] = held[r] \ {Guard(RegistryLock, "read")}]
    /\ UNCHANGED <<indexVars, storeVars, matchVars, lineVars, connVars>>

InitList == StoreIdle /\ MatchIdle /\ LineIdle /\ ConnIdle /\ IndexIdle

NextList ==
    \/ \E t \in SingleWriter : WriterStep(t) /\ UNCHANGED held
    \/ \E m \in StoreMethods : RegistryFree /\ Register(m) /\ UNCHANGED held
    \/ \E r \in Readers : ListBegin(r)
    \/ \E r \in Readers : ListCollect(r)

SpecList == InitList /\ [][NextList]_vars

----------------------------------------------------------------------------
(* Line decoding: Input::next_line and parse_entry.  Bytes are drawn from  *)
(* a small alphabet; CR and LF stand for the bytes 0x0D and 0x0A.          *)

CR == "CR"
LF == "LF"
ByteUniverse == {"x", "{", "}", CR, LF}

ByteStrings(n) == UNION { [1..k -> ByteUniverse] : k \in 0..n }

\* the position of the first LF of bytes, or 0
RECURSIVE find_lf(_, _)
find_lf(bytes, i) ==
    IF i > Len(bytes) THEN 0
    ELSE IF bytes[i] = LF THEN i
    ELSE find_lf(bytes, i + 1)

\* AsyncBufReadExt::read_until(b'\n'): the bytes up to and including the
\* first LF, or everything that is left when there is none
read_until(bytes) ==
    LET at == find_lf(bytes, 1)
    IN  IF at = 0
        THEN [line |-> bytes, rest |-> <<>>]
        ELSE [line |-> SubSeq(bytes, 1, at),
              rest |-> SubSeq(bytes, at + 1, Len(bytes))]

json_whitespace(b) == b \in {CR, LF}

\* serde_json::from_slice::<BTreeMap<String, String>>: whitespace is skipped
\* before, between and after the tokens; over ByteUniverse the only object
\* that can be written is the empty one
json_decode(bytes) ==
    LET tokens == SelectSeq(bytes, LAMBDA b : ~json_whitespace(b))
    IN  IF tokens = <<"{", "}">>
        THEN [ok |-> TRUE, fields |-> <<>>]
        ELSE [ok |-> FALSE, fields |-> <<>>]

\* <[u8]>::strip_suffix(b"\r\n").unwrap_or(bytes)
strip_suffix_crlf(bytes) ==
    LET n == Len(bytes)
    IN  IF n >= 2 /\ bytes[n - 1] = CR /\ bytes[n] = LF
        THEN SubSeq(bytes, 1, n - 2)
        ELSE bytes

parse_entry(bytes) ==
    LET decoded == json_decode(bytes)
    IN  IF decoded.ok
        THEN JsonEntry(decoded.fields)
        ELSE RawEntry(strip_suffix_crlf(bytes))

InitLine ==
    /\ StoreIdle
    /\ IndexIdle
    /\ MatchIdle
    /\ ConnIdle
    /\ l_input \in ByteStrings(MaxLine)
    /\ l_line = <<>>
    /\ l_entry = None

\* Input::next_line on a stream: with nothing left to read it stays pending
NextLine ==
    /\ l_input # <<>>
    /\ LET read == read_until(l_input)
       IN  /\ l_line' = read.line
           /\ l_input' = read.rest
           /\ l_entry' = Some(parse_entry(read.line))
    /\ UNCHANGED <<indexVars, storeVars, held, keys, matchVars, connVars>>

SpecLine == InitLine /\ [][NextLine]_vars

----------------------------------------------------------------------------
(* A server connection: handle_raw of ws.rs and the session task it        *)
(* spawns.  A binary frame carries Some(message) when its bytes decode to  *)
(* a client message and None when they do not.                             *)

AuthToken == "secret"
Tokens == {AuthToken, "guess"}

Handshake(token) == <<"Handshake", token>>
ListKeys == <<"ListKeys">>
UpdateKeyList(ks) == <<"UpdateKeyList", ks>>

Binary(raw) == [frame |-> "Binary", raw |-> raw]
Ping == [frame |-> "Ping", raw |-> None]
Close == [frame |-> "Close", raw |-> None]
\* the item Some(Err(e)) of the socket: a tungstenite::Error
SocketError == [frame |-> "Error", raw |-> None]

ClientFrames ==
    { Binary(Some(Handshake(t))) : t \in Tokens }
        \cup { Binary(Some(ListKeys)), Binary(None), Ping, Close, SocketError }

FrameSeqs(n) == UNION { [1..k -> ClientFrames] : k \in 0..n }

\* one turn of the loop of recv_msg on the next item of the socket
recv_msg(frames) ==
    IF frames = <<>> THEN [result |-> "EndOfStream", message |-> None]
    ELSE IF Head(frames).frame = "Error" THEN [result |-> "Receive", message |-> None]
    ELSE IF Head(frames).frame = "Close" THEN [result |-> "EndOfStream", message |-> None]
    ELSE IF Head(frames).frame # "Binary" THEN [result |-> "continue", message |-> None]
    ELSE IF Head(frames).raw = None THEN [result |-> "Decode", message |-> None]
    ELSE [result |-> "Ok", message |-> Head(frames).raw]

\* a plausible slip: the token is not compared
check_handshake_any_token(msg) ==
    IF msg[1] # "Handshake" THEN "NoHandshake" ELSE "Ok"

\* the checks of handle_raw on the first message
check_handshake(msg) ==
    IF msg[1] # "Handshake" THEN "NoHandshake"
    ELSE IF msg[2] # AuthToken THEN "BadAuthToken"
    ELSE "Ok"

\* handle_raw has returned: send_rx and recv_tx are dropped
ConnOver == c_state \notin {"none", "handshake", "running", "send_msg"}

\* the task running session::handle, and what it is doing while it holds
\* recv_rx and send_tx
SessionThread == "r1"
SessionAlive == c_session \in {"running", "list_indices", "send"}

\* what the sink of the socket makes of a message: written, not encoded, or
\* not sent
SinkOutcomes == {"Ok", "Encode", "Send"}

InitConn ==
    /\ StoreIdle
    /\ MatchIdle
    /\ LineIdle
    /\ IndexIdle
    /\ c_in \in FrameSeqs(MaxFrames)
    /\ c_state = "handshake"
    /\ c_first = None
    /\ c_recvq = <<>>
    /\ c_sendq = <<>>
    /\ c_out = None
    /\ c_sent = <<>>
    /\ c_session = "none"

\* handle_raw up to the spawn of the session: `recv_msg(&mut sock).await?`
\* and the two checks on what it returned
HandshakeRecv ==
    /\ c_state = "handshake"
    /\ LET recv == recv_msg(c_in)
       IN  /\ c_in' = IF c_in = <<>> THEN <<>> ELSE Tail(c_in)
           /\ IF recv.result = "continue"
              THEN UNCHANGED <<c_state, c_first, c_session>>
              ELSE IF recv.result # "Ok"
              THEN /\ c_state' = recv.result
                   /\ UNCHANGED <<c_first, c_session>>
              ELSE /\ c_first' = recv.message
                   /\ LET checked == check_handshake(recv.message[1])
                      IN  IF checked = "Ok"
                          THEN c_state' = "running" /\ c_session' = "running"
                          ELSE c_state' = checked /\ UNCHANGED c_session
    /\ UNCHANGED <<c_recvq, c_sendq, c_out, c_sent>>
    /\ UNCHANGED <<indexVars, storeVars, held, keys, matchVars, lineVars>>

\* the recv arm of the select: a decoded message is handed to the session;
\* the error of a send to a session that has ended is ignored
LoopRecv ==
    /\ c_state = "running"
    /\ LET recv == recv_msg(c_in)
       IN  /\ c_in' = IF c_in = <<>> THEN <<>> ELSE Tail(c_in)
           /\ IF recv.result = "continue"
              THEN UNCHANGED <<c_state, c_recvq>>
              ELSE IF recv.result # "Ok"
              THEN c_state' = recv.result /\ UNCHANGED c_recvq
              ELSE /\ c_recvq' = IF SessionAlive
                                 THEN Append(c_recvq, recv.message[1])
                                 ELSE c_recvq
                   /\ UNCHANGED c_state
    /\ UNCHANGED <<c_first, c_sendq, c_out, c_sent, c_session>>
    /\ UNCHANGED <<indexVars, storeVars, held, keys, matchVars, lineVars>>

\* the send arm of the select, `send_rx.next()`: a message of the session is
\* taken off the channel and send_msg is entered; with the session gone and
\* the channel drained the connection ends
LoopSend ==
    /\ c_state = "running"
    /\ IF c_sendq # <<>>
       THEN /\ c_out' = Some(Head(c_sendq))
            /\ c_sendq' = Tail(c_sendq)
            /\ c_state' = "send_msg"
       ELSE /\ ~SessionAlive
            /\ c_state' = "EndOfStream"
            /\ UNCHANGED <<c_sendq, c_out>>
    /\ UNCHANGED <<c_in, c_first, c_recvq, c_sent, c_session>>
    /\ UNCHANGED <<indexVars, storeVars, held, keys, matchVars, lineVars>>

\* send_msg: the message is encoded and written to the socket, or handle_raw
\* returns the error of the encoder or of the socket
SendMsg ==
    /\ c_state = "send_msg"
    /\ \E outcome \in SinkOutcomes :
          IF outcome = "Ok"
          THEN c_sent' = Append(c_sent, c_out[1]) /\ c_state' = "running"
          ELSE c_sent' = c_sent /\ c_state' = outcome
    /\ c_out' = None
    /\ UNCHANGED <<c_in, c_first, c_recvq, c_sendq, c_session>>
    /\ UNCHANGED <<indexVars, storeVars, held, keys, matchVars, lineVars>>

\* a plausible slip: a Handshake inside the session is skipped and the
\* session goes on
SessionTake_handshake_skipped ==
    /\ c_session = "running"
    /\ IF c_recvq # <<>>
       THEN /\ c_recvq' = Tail(c_recvq)
            /\ c_session' = IF Head(c_recvq)[1] = "Handshake"
                            THEN "running"
                            ELSE "list_indices"
       ELSE /\ ConnOver
            /\ c_session' = "ended"
            /\ UNCHANGED c_recvq
    /\ UNCHANGED <<c_in, c_state, c_first, c_sendq, c_out, c_sent>>
    /\ UNCHANGED <<indexVars, storeVars, held, keys, matchVars, lineVars>>

\* session::handle_fallible, `while let Some(message) = stream.next().await`:
\* the next message is taken and matched, or the session ends when
\* handle_raw has returned and the channel is drained
SessionTake ==
    /\ c_session = "running"
    /\ IF c_recvq # <<>>
       THEN /\ c_recvq' = Tail(c_recvq)
            /\ c_session' = IF Head(c_recvq)[1] = "Handshake"
                            THEN "MultiAuth"
                            ELSE "list_indices"
       ELSE /\ ConnOver
            /\ c_session' = "ended"
            /\ UNCHANGED c_recvq
    /\ UNCHANGED <<c_in, c_state, c_first, c_sendq, c_out, c_sent>>
    /\ UNCHANGED <<indexVars, storeVars, held, keys, matchVars, lineVars>>

\* the ListKeys arm, inside index.list_indices(): the read lock of the
\* registry is waited for and taken
SessionListBegin ==
    /\ c_session = "list_indices"
    /\ ListBegin(SessionThread)

\* the ListKeys arm, inside index.list_indices(): the keys are collected
\* and the guard dropped
SessionListCollect ==
    /\ c_session = "list_indices"
    /\ Guard(RegistryLock, "read") \in held[SessionThread]
    /\ \E ks \in list_indices(indices) : keys' = Some(ks)
    /\ held' = [held EXCEPT ![SessionThread] = @ \ {Guard(RegistryLock, "read")}]
    /\ c_session' = "send"
    /\ UNCHANGED <<c_in, c_state, c_first, c_recvq, c_sendq, c_out, c_sent>>
    /\ UNCHANGED <<indexVars, storeVars, matchVars, lineVars>>

\* the ListKeys arm, `sink.send(UpdateKeyList(keys)).await?`: the answer
\* goes to the channel, or the session ends with Error::Send when handle_raw
\* has returned and dropped the receiver
SessionSend ==
    /\ c_session = "send"
    /\ IF ConnOver
       THEN c_session' = "Send" /\ UNCHANGED c_sendq
       ELSE /\ c_sendq' = Append(c_sendq, UpdateKeyList(keys[1]))
            /\ c_session' = "running"
    /\ keys' = None
    /\ UNCHANGED <<c_in, c_state, c_first, c_recvq, c_out, c_sent>>
    /\ UNCHANGED <<indexVars, storeVars, held, matchVars, lineVars>>

NextConn ==
    \/ HandshakeRecv
    \/ LoopRecv
    \/ LoopSend
    \/ SendMsg
    \/ SessionTake
    \/ SessionListBegin
    \/ SessionListCollect
    \/ SessionSend

SpecConn == InitConn /\ [][NextConn]_vars

----------------------------------------------------------------------------
(* One Index on its own: add and remove called with any ids.               *)

InitIndex ==
    /\ StoreIdle
    /\ MatchIdle
    /\ LineIdle
    /\ ConnIdle
    /\ IndexIdle

\* Index::add(id)
IndexAddCall(id) ==
    /\ ix_fault = "none"
    /\ LET r == Index_add(ix_queue, id)
       IN  /\ ix_queue' = r.queue
           /\ ix_fault' = r.panic
    /\ ix_before' = ix_queue
    /\ ix_id' = id
    /\ ix_op' = "add"
    /\ UNCHANGED <<storeVars, held, keys, matchVars, lineVars, connVars>>

\* Index::remove(id)
IndexRemoveCall(id) ==
    /\ ix_fault = "none"
    /\ LET r == Index_remove(ix_queue, id)
       IN  /\ ix_queue' = r.queue
           /\ ix_fault' = r.panic
    /\ ix_before' = ix_queue
    /\ ix_id' = id
    /\ ix_op' = "remove"
    /\ UNCHANGED <<storeVars, held, keys, matchVars, lineVars, connVars>>

NextIndex ==
    \/ \E id \in 0..MaxId : IndexAddCall(id)
    \/ \E id \in 0..MaxId : IndexRemoveCall(id)

SpecIndex == InitIndex /\ [][NextIndex]_vars

----------------------------------------------------------------------------
(* The store with the index of the empty condition list, fed entries with  *)
(* fields, an entry without fields and a raw line.                         *)

EmptyMethod == IndexMethod_new(<<>>)

EmptyMethodEntries ==
    { JsonEntry(<<>>),
      JsonEntry(<< <<"a", "1">> >>),
      RawEntry("not json") }

\* Store::push by thread t of one of the entries
PushStepOf(t, entries) ==
    \/ \E e \in entries : PushBegin(t, e)
    \/ BufferPush(t)
    \/ AddRaw(t)
    \/ AddJson(t)
    \/ AddDone(t)
    \/ RemoveTarget(t)
    \/ RemoveRaw(t)
    \/ RemoveJson(t)
    \/ RemoveDone(t)

InitEmptyMethod ==
    /\ \E buffer_size \in 1..MaxBound :
          LET store == Store_new(buffer_size)
          IN  /\ buffer = store.buffer
              /\ raw_index = store.raw_index
              /\ indices = store.indices
    /\ pc = [t \in Threads |-> "idle"]
    /\ message = [t \in Threads |-> NoMessage]
    /\ target = [t \in Threads |-> NoTarget]
    /\ push_result = [t \in Threads |-> NoResult]
    /\ fault = "none"
    /\ pushed = <<>>
    /\ begun = 0
    /\ regAt = [m \in {} |-> 0]
    /\ held = [t \in Threads \cup Readers |-> {}]
    /\ keys = None
    /\ MatchIdle
    /\ LineIdle
    /\ IndexIdle
    /\ ConnIdle

NextEmptyMethod ==
    \/ \E t \in SingleWriter : PushStepOf(t, EmptyMethodEntries) /\ UNCHANGED held
    \/ Register(EmptyMethod) /\ UNCHANGED held

SpecEmptyMethod == InitEmptyMethod /\ [][NextEmptyMethod]_vars

----------------------------------------------------------------------------
(* Two threads calling Store::push on one Store, interleaved at the        *)
(* granularity of the critical sections.                                   *)

WritersEntries ==
    { JsonEntry(<< <<"a", "1">> >>),
      RawEntry("not json") }

NextWriters ==
    \/ \E t \in Threads : PushStepOf(t, WritersEntries) /\ UNCHANGED held
    \/ Register(EmptyMethod) /\ UNCHANGED held

SpecWriters == InitEmptyMethod /\ [][NextWriters]_vars

----------------------------------------------------------------------------
(* The matcher on its own: IndexMethod::new and should_index applied to    *)
(* condition lists and field lists drawn from bounded sets.                *)

CondUniverse ==
    { HasKey("a"), HasKey("b"), HasKey("level"),
      KeyValue("a", "1"), KeyValue("b", "2"), KeyValue("level", "error") }

\* every list of at most MaxConds conditions, in any order: a method reaches
\* should_index from IndexMethod::new or deserialized from a client
CondLists == UNION { [1..n -> CondUniverse] : n \in 0..MaxConds }

FieldPairs ==
    { <<"a", "1">>, <<"b", "2">>, <<"b", "3">>, <<"c", "3">>,
      <<"level", "info">>, <<"level", "error">>, <<"msg", "x">> }

UniqueNames(S) == \A x \in S : \A y \in S : x[1] = y[1] => x = y

\* parse_entry: the fields of a decoded object, collected from the BTreeMap
\* in ascending order of their names
RECURSIVE sorted_fields(_)
sorted_fields(S) ==
    IF S = {} THEN <<>>
    ELSE LET lo == CHOOSE x \in S : \A y \in S : StrRank(x[1]) <= StrRank(y[1])
         IN  <<lo>> \o sorted_fields(S \ {lo})

FieldLists ==
    { sorted_fields(S) :
        S \in { T \in SUBSET FieldPairs : UniqueNames(T) /\ Cardinality(T) <= MaxFields } }

InitMatch ==
    /\ StoreIdle
    /\ LineIdle
    /\ IndexIdle
    /\ ConnIdle
    /\ m_units \in CondLists
    /\ m_conds = m_units
    /\ m_fields \in FieldLists
    /\ m_stage = "units"
    /\ m_result = None

\* IndexMethod::new on the supplied units
MatchConstruct ==
    /\ m_stage = "units"
    /\ m_result = None
    /\ m_conds' = IndexMethod_new(m_conds)
    /\ m_stage' = "method"
    /\ UNCHANGED <<m_units, m_fields, m_result>>
    /\ UNCHANGED <<indexVars, storeVars, held, keys, lineVars, connVars>>

\* should_index on the condition list and the fields
MatchApply ==
    /\ m_result = None
    /\ m_result' = Some(should_index(m_conds, m_fields))
    /\ UNCHANGED <<m_units, m_conds, m_fields, m_stage>>
    /\ UNCHANGED <<indexVars, storeVars, held, keys, lineVars, connVars>>

NextMatch == MatchConstruct \/ MatchApply

SpecMatch == InitMatch /\ [][NextMatch]_vars

\* IndexMethod::new on every list of units, the method then tried on an
\* entry without fields
InitMethod ==
    /\ StoreIdle
    /\ LineIdle
    /\ IndexIdle
    /\ ConnIdle
    /\ m_units \in CondLists
    /\ m_conds = m_units
    /\ m_fields = <<>>
    /\ m_stage = "units"
    /\ m_result = None

SpecMethod == InitMethod /\ [][NextMatch]_vars

----------------------------------------------------------------------------
(* Progress.  Behaviours start either with a store, its writer pushing     *)
(* lock by lock beside a task of the query layer that lists and registers  *)
(* index methods, or with one call of should_index taken turn by turn.     *)

LiveMethods == {EmptyMethod}

\* registration (specification, section 4.4): the write lock of the registry
RegisterBegin(r) ==
    /\ held[r] = {}
    /\ LiveMethods \ DOMAIN indices # {}
    /\ CanLock(r, RegistryLock, "write")
    /\ held' = [held EXCEPT ![r] = {Guard(RegistryLock, "write")}]
    /\ UNCHANGED <<indexVars, storeVars, keys, matchVars, lineVars, connVars>>

\* registration (specification, section 4.4): the method is inserted and
\* the write lock dropped
RegisterCommit(r) ==
    /\ Guard(RegistryLock, "write") \in held[r]
    /\ \E m \in LiveMethods : Register(m)
    /\ held' = [held EXCEPT ![r] = held[r] \ {Guard(RegistryLock, "write")}]

\* Store::push by thread t of one of the entries, lock by lock
LockedStepOf(t, entries) ==
    \/ \E e \in entries : PushBegin(t, e) /\ TargetUnder(t, e)
    \/ BufferPush(t) /\ Release(t, Guard(BufferLock, "write"))
    \/ AddRaw(t) /\ Release(t, Guard(RawLock, "write"))
    \/ \E m \in DOMAIN indices :
          AddJsonAt(t, m) /\ Release(t, Guard(IndexLock(m), "write"))
    \/ AddDone(t) /\ UNCHANGED held
    \/ RemoveTarget(t) /\ TargetUnder(t, push_result[t].removed[1][2])
    \/ RemoveRaw(t) /\ Release(t, Guard(RawLock, "write"))
    \/ \E m \in DOMAIN indices :
          RemoveJsonAt(t, m) /\ Release(t, Guard(IndexLock(m), "write"))
    \/ RemoveDone(t) /\ UNCHANGED held

\* a plausible slip: a field whose name sorts before the unit's key is
\* looked at again instead of being taken off the slice
ScanTurn_field_kept ==
    /\ m_stage = "scan"
    /\ m_result = None
    /\ IF m_conds = <<>>
       THEN m_result' = Some(TRUE) /\ UNCHANGED m_fields
       ELSE IF m_fields = <<>>
       THEN m_result' = Some(FALSE) /\ UNCHANGED m_fields
       ELSE LET unit == Head(m_conds)
                first == Head(m_fields)
                ord == str_cmp(first[1], key(unit))
            IN  /\ m_fields' = IF ord = "Less" THEN m_fields ELSE Tail(m_fields)
                /\ m_result' =
                      IF ord = "Greater" THEN Some(FALSE)
                      ELSE IF ord = "Equal" /\ unit[1] = "KeyValue" /\ first[2] # unit[3]
                      THEN Some(FALSE)
                      ELSE None
    /\ UNCHANGED <<m_units, m_conds, m_stage>>
    /\ UNCHANGED <<indexVars, storeVars, held, keys, lineVars, connVars>>

\* should_index: the end of the `for` when there is no unit, or one turn of
\* the `loop` of the first unit, which takes a field off the slice or
\* returns.  No turn ends the loop without returning, so the `for` never
\* reaches a second unit.
ScanTurn ==
    /\ m_stage = "scan"
    /\ m_result = None
    /\ IF m_conds = <<>>
       THEN m_result' = Some(TRUE) /\ UNCHANGED m_fields
       ELSE IF m_fields = <<>>
       THEN m_result' = Some(FALSE) /\ UNCHANGED m_fields
       ELSE LET unit == Head(m_conds)
                first == Head(m_fields)
                ord == str_cmp(first[1], key(unit))
            IN  /\ m_fields' = Tail(m_fields)
                /\ m_result' =
                      IF ord = "Greater" THEN Some(FALSE)
                      ELSE IF ord = "Equal" /\ unit[1] = "KeyValue" /\ first[2] # unit[3]
                      THEN Some(FALSE)
                      ELSE None
    /\ UNCHANGED <<m_units, m_conds, m_stage>>
    /\ UNCHANGED <<indexVars, storeVars, held, keys, lineVars, connVars>>

InitScan ==
    /\ StoreIdle
    /\ LineIdle
    /\ IndexIdle
    /\ ConnIdle
    /\ m_units \in CondLists
    /\ m_conds = IndexMethod_new(m_units)
    /\ m_fields \in FieldLists
    /\ m_stage = "scan"
    /\ m_result = None

InitLive == InitEmptyMethod \/ InitScan

\* the store is in use: no call of should_index is being stepped through
StoreLive == m_stage = "units"

NextLive ==
    \/ StoreLive /\ \E t \in SingleWriter : Acquire(t)
    \/ StoreLive /\ \E t \in SingleWriter : LockedStepOf(t, WritersEntries)
    \/ StoreLive /\ \E r \in Readers : ListBegin(r)
    \/ StoreLive /\ \E r \in Readers : ListCollect(r)
    \/ StoreLive /\ \E r \in Readers : RegisterBegin(r)
    \/ StoreLive /\ \E r \in Readers : RegisterCommit(r)
    \/ ScanTurn

\* every thread that can take a step is scheduled again
FairLive ==
    /\ \A t \in SingleWriter :
          /\ WF_vars(StoreLive /\ Acquire(t))
          /\ WF_vars(StoreLive /\ LockedStepOf(t, WritersEntries))
    /\ \A r \in Readers :
          /\ WF_vars(StoreLive /\ ListCollect(r))
          /\ WF_vars(StoreLive /\ RegisterCommit(r))
    /\ WF_vars(ScanTurn)

SpecLive == InitLive /\ [][NextLive]_vars /\ FairLive

----------------------------------------------------------------------------
(* The session of a connection while another thread registers an index     *)
(* method: the answers to ListKeys change from one request to the next,    *)
(* and list_indices waits while the registry is write-locked.              *)

Registrars == Threads \ SingleWriter

\* the pushes of the source task while the session runs
MaxSessionPush == 3

\* the lines of the source in the order it reads them: a line that is not
\* JSON, a JSON line, and so on in turn
SessionEntries ==
    IF begun % 2 = 0
    THEN { RawEntry("not json") }
    ELSE { JsonEntry(<< <<"a", "1">> >>) }

NextSession ==
    \/ HandshakeRecv
    \/ LoopRecv
    \/ LoopSend
    \/ SendMsg
    \/ SessionTake
    \/ SessionListBegin
    \/ SessionListCollect
    \/ SessionSend
    \/ \E r \in Registrars : RegisterBegin(r)
    \/ \E r \in Registrars : RegisterCommit(r)
    \/ \E t \in SingleWriter :
          /\ pc[t] = "idle" =>
                /\ begun < MaxSessionPush
                /\ \E e \in SessionEntries : e.kind = "Json"
          /\ Acquire(t)
    \/ \E t \in SingleWriter :
          /\ pc[t] = "idle" => begun < MaxSessionPush
          /\ LockedStepOf(t, SessionEntries)

SpecSession == InitConn /\ [][NextSession]_vars

----------------------------------------------------------------------------
(* Vocabulary of the properties *)

Min(a, b) == IF a < b THEN a ELSE b
Max(a, b) == IF a > b THEN a ELSE b

InSeq(x, q) == \E i \in 1..Len(q) : q[i] = x

\* the ids of the entries in the buffer
Window == { buffer.start_index + i - 1 : i \in 1..Len(buffer.deque) }

AllIdle == \A t \in Threads : pc[t] = "idle"

\* the fields satisfy every condition: each HasKey name is present, each
\* KeyValue name is present with that value
Satisfies(conds, fields) ==
    \A i \in 1..Len(conds) :
        \E j \in 1..Len(fields) :
            /\ fields[j][1] = key(conds[i])
            /\ conds[i][1] = "KeyValue" => fields[j][2] = conds[i][3]

\* ascending by name, one condition per name
SortedByName(conds) ==
    \A i \in 1..(Len(conds) - 1) : StrRank(key(conds[i])) < StrRank(key(conds[i + 1]))

\* the step of writer t in which MessageBuffer::push returns
BufferPushReturns(t) == pc[t] = "buffer" /\ pc'[t] = "add"

\* writer t is between MessageBuffer::push and the return of Store::push and
\* its push evicted an entry
Evicting(t) == pc[t] \in {"add", "rm_target", "remove"} /\ push_result[t].removed # None

----------------------------------------------------------------------------
(* Properties *)

\* C1: with a bound B >= 1, after N pushes the buffer holds min(N, B)
\* entries, start_index is max(0, N - B), the valid ids are the range
\* [max(0, N - B), N) and the entry with id k is the k-th entry pushed; the
\* deque never holds more than bound entries.
C1_BoundedWindow ==
    /\ Len(buffer.deque) <= buffer.bound
    /\ (buffer.bound >= 1 =>
          LET N == Len(pushed)
              B == buffer.bound
          IN  /\ Len(buffer.deque) = Min(N, B)
              /\ buffer.start_index = Max(0, N - B)
              /\ Window = Max(0, N - B)..(N - 1)
              /\ \A i \in 1..Len(buffer.deque) :
                    buffer.deque[i] = pushed[buffer.start_index + i])

C1_Witness ==
    /\ buffer.bound = 2
    /\ Len(pushed) = 4
    /\ buffer.start_index = 2
    /\ Len(buffer.deque) = 2

\* C2: MessageBuffer::push evicts iff the deque held exactly bound entries
\* before the call; it then removes exactly the oldest entry and returns it
\* with the former start_index, otherwise it returns no evicted pair.  The
\* first B pushes evict nothing, the (B+1)-th evicts id 0.
C2_EvictsOldestWhenFull ==
    [][\A t \in Threads :
          BufferPushReturns(t) =>
            LET r == push_result'[t]
            IN  /\ (r.removed # None) <=> (Len(buffer.deque) = buffer.bound)
                /\ r.removed # None =>
                     /\ r.removed = Some(<<buffer.start_index, Head(buffer.deque)>>)
                     /\ buffer'.deque = Append(Tail(buffer.deque), message[t])
                /\ r.removed = None =>
                     buffer'.deque = Append(buffer.deque, message[t])
                /\ Len(pushed) < buffer.bound => r.removed = None
                /\ Len(pushed) = buffer.bound => r.removed # None /\ r.removed[1][1] = 0
      ]_vars

C2_Witness ==
    \E t \in Threads :
        /\ Evicting(t)
        /\ buffer.bound = 2
        /\ Len(pushed) = buffer.bound + 1
        /\ push_result[t].removed[1][1] = 0
        /\ push_result[t].removed[1][2] = pushed[1]
        /\ pushed[1] # pushed[2]

\* C3: the k-th call of MessageBuffer::push (counting from 0) returns id k
\* as `added`, whatever has been evicted: ids increase by one per push and
\* are never reused.
C3_AddedIsPushCount ==
    [][\A t \in Threads :
          BufferPushReturns(t) => push_result'[t].added = Len(pushed)
      ]_vars

C3_Witness ==
    \E t \in Threads :
        /\ pc[t] = "add"
        /\ push_result[t].added = 3
        /\ buffer.start_index = 2

\* C4: a Store is never built with a zero bound, so the expect("bound > 0")
\* of MessageBuffer::push never fails.
C4_ZeroBoundRejected ==
    /\ fault # "bound > 0"
    /\ \A t \in Threads : pc[t] = "panicked" => buffer.bound > 0

\* C5: once the push of a Json entry E has returned, for every method M
\* registered before that push began, E's id is in M's index iff E's fields
\* satisfy every condition of M (until E is evicted).
C5_MembershipAccuracy ==
    AllIdle =>
        \A m \in DOMAIN indices :
            \A id \in Window :
                (pushed[id + 1].kind = "Json" /\ id >= regAt[m]) =>
                    (InSeq(id, indices[m]) <=> Satisfies(m, pushed[id + 1].fields))

\* C6: should_index returns true whenever the fields satisfy every condition
\* of a condition list that is ascending by name.
C6_MatcherComplete ==
    (m_result # None /\ SortedByName(m_conds) /\ Satisfies(m_conds, m_fields))
        => m_result = Some(TRUE)

\* C7: should_index returns true only if the fields satisfy every condition
\* of a condition list that is ascending by name: it returns false when a
\* name is absent or a KeyValue value differs.
C7_MatcherSound ==
    (m_result # None /\ SortedByName(m_conds))
        => (m_result = Some(TRUE) => Satisfies(m_conds, m_fields))

C7_Witness ==
    /\ m_result = Some(FALSE)
    /\ m_conds = <<KeyValue("level", "error")>>
    /\ m_fields = << <<"level", "info">> >>

\* C8: an index is empty when it is created, and it never holds the id of an
\* entry whose push began before the index was registered.
C8_LateRegistration ==
    [][/\ \A m \in (DOMAIN indices') \ (DOMAIN indices) : indices'[m] = <<>>
       /\ \A m \in DOMAIN indices' :
             \A i \in 1..Len(indices'[m]) : indices'[m][i] >= regAt'[m]
      ]_vars

\* an earlier entry that matches is still in the buffer, a later one is in the index
C8_Witness ==
    \E m \in DOMAIN indices :
        /\ indices[m] # <<>>
        /\ \E id \in Window :
              /\ id < regAt[m]
              /\ pushed[id + 1].kind = "Json"
              /\ should_index(m, pushed[id + 1].fields)
              /\ ~InSeq(id, indices[m])

\* C9: when a push evicted id e, no step of the removal changes an index (or
\* the raw index) that does not hold e, and when the push returns e is in no
\* index and not in the raw index.
C9_EvictionCleanup ==
    [][\A t \in Threads :
          Evicting(t) /\ pc[t] \in {"rm_target", "remove"} =>
            LET e == push_result[t].removed[1][1]
            IN  /\ \A m \in DOMAIN indices :
                      ~InSeq(e, indices[m]) => indices'[m] = indices[m]
                /\ ~InSeq(e, raw_index) => raw_index' = raw_index
                /\ pc'[t] = "idle" =>
                      /\ ~InSeq(e, raw_index')
                      /\ \A m \in DOMAIN indices' : ~InSeq(e, indices'[m])
      ]_vars

\* the index registered from the start has lost the id of the evicted Json
\* entry 0 and kept a later one, while a later index was left alone
C9_Witness ==
    /\ AllIdle
    /\ buffer.start_index >= 1
    /\ pushed[1].kind = "Json"
    /\ \E m \in DOMAIN indices :
          /\ regAt[m] = 0
          /\ should_index(m, pushed[1].fields)
          /\ indices[m] # <<>>
          /\ Head(indices[m]) >= buffer.start_index

\* C10: the id of a Raw entry is in the raw index and in no secondary
\* index, the id of a Json entry is never in the raw index.
C10_RawJsonSeparation ==
    /\ \A i \in 1..Len(raw_index) :
          raw_index[i] < Len(pushed) /\ pushed[raw_index[i] + 1].kind = "Raw"
    /\ \A m \in DOMAIN indices :
          \A i \in 1..Len(indices[m]) :
              indices[m][i] < Len(pushed) /\ pushed[indices[m][i] + 1].kind = "Json"
    /\ AllIdle =>
          \A id \in Window :
              id < Len(pushed) /\ pushed[id + 1].kind = "Raw" => InSeq(id, raw_index)

C10_Witness ==
    /\ AllIdle
    /\ raw_index # <<>>
    /\ \E m \in DOMAIN indices :
          /\ indices[m] # <<>>
          /\ regAt[m] = 0
          /\ \E id \in Window : id >= 1 /\ pushed[id + 1].kind = "Raw"

\* C11: the queue of every secondary index is strictly increasing in every
\* state, the states between the steps of a push included.
C11_IndexMonotonic ==
    \A m \in DOMAIN indices :
        \A i \in 1..(Len(indices[m]) - 1) : indices[m][i] < indices[m][i + 1]

C11_Witness ==
    \E m \in DOMAIN indices :
        /\ Len(indices[m]) >= 2
        /\ \E t \in Threads : pc[t] = "remove"

\* the ids held by some secondary index or by the raw index
IndexedIds ==
    { raw_index[i] : i \in 1..Len(raw_index) }
        \cup UNION { { indices[m][i] : i \in 1..Len(indices[m]) } : m \in DOMAIN indices }

\* C12 as claimed: in every state every id held by an index is in the
\* window of the buffer.
C12_IndexedIdsInWindow == IndexedIds \subseteq Window

\* C12 as amended: every id held by an index is in the window, or it is the
\* id that the push in progress has evicted from the buffer and not yet
\* removed from the indices; between pushes every indexed id is in the window.
C12_IndexedInWindowOrBeingEvicted ==
    \A id \in IndexedIds :
        \/ id \in Window
        \/ \E t \in Threads : Evicting(t) /\ id = push_result[t].removed[1][1]

\* the evicted id is still in an index while its push is in progress
C12_Witness ==
    \E t \in Threads :
        /\ Evicting(t)
        /\ push_result[t].removed[1][1] \in IndexedIds
        /\ push_result[t].removed[1][1] \notin Window

\* the ids that the step adds to a secondary index or to the raw index
NewlyIndexed ==
    { k \in 0..Len(pushed') :
        \/ InSeq(k, raw_index') /\ ~InSeq(k, raw_index)
        \/ \E m \in DOMAIN indices' :
              /\ InSeq(k, indices'[m])
              /\ m \in DOMAIN indices => ~InSeq(k, indices[m]) }

\* the id added by the push of writer t is in every index of its target
AdditionsDone(t) ==
    LET k == push_result[t].added
    IN  IF message[t].kind = "Raw" THEN InSeq(k, raw_index)
        ELSE \A m \in DOMAIN indices :
                (regAt[m] <= k /\ should_index(m, message[t].fields))
                    => InSeq(k, indices[m])

\* C14: an id is added to an index only after the buffer append that
\* assigned it and while it is still in the buffer (before its eviction is
\* processed); within one push the removal of the evicted id starts only
\* when the new id is in all its target indices.
C14_IndexMutationOrder ==
    [][/\ \A k \in NewlyIndexed : k < Len(pushed) /\ k \in Window
       /\ \A t \in Threads :
             pc'[t] \in {"rm_target", "remove"} => AdditionsDone(t)'
      ]_vars

C14_Witness ==
    \E t \in Threads :
        /\ pc[t] = "remove"
        /\ \E m \in DOMAIN indices :
              /\ InSeq(push_result[t].added, indices[m])
              /\ InSeq(push_result[t].removed[1][1], indices[m])

\* ascending by name, conditions on the same name in any order
AscendingByName(conds) ==
    \A i \in 1..(Len(conds) - 1) : StrRank(key(conds[i])) <= StrRank(key(conds[i + 1]))

\* C17: the condition sequence produced by IndexMethod::new is ascending by
\* field name for every input (the kind of the condition only breaks ties).
C17_SortedByFieldName ==
    m_stage = "method" => AscendingByName(m_conds)

\* the number of occurrences of c in the list
Occurrences(c, list) == Cardinality({ i \in 1..Len(list) : list[i] = c })

\* how often each condition occurs in each list
BagOf == [v \in CondLists |-> [c \in CondUniverse |-> Occurrences(c, v)]]

\* the two lists hold the same conditions, each as often
IsPermutation(u, v) == BagOf[u] = BagOf[v]

\* the method IndexMethod::new makes of each list
MethodOf == [v \in CondLists |-> IndexMethod_new(v)]

\* C18: IndexMethod::new yields the same method for two condition lists iff
\* one is a permutation of the other.
C18_MethodIdentity ==
    m_stage = "method" =>
        \A v \in CondLists :
            (MethodOf[v] = m_conds) <=> IsPermutation(v, m_units)

C18_Witness ==
    /\ m_stage = "method"
    /\ m_units = <<KeyValue("a", "1"), HasKey("a")>>
    /\ m_conds = <<HasKey("a"), KeyValue("a", "1")>>

\* C15: bound 2; {"a":"1"} and {"a":"2"} are pushed (ids 0 and 1), then the
\* index of HasKey("a") is registered; once {"a":"3"} is pushed it has id 2,
\* id 0 is evicted and in no index, and id 2 is in the HasKey("a") index;
\* once `not json` is pushed it has id 3, id 1 is evicted, and id 3 is in
\* the raw index only.
C15_EndToEnd ==
    LET m == ScenarioMethod
    IN  ( /\ AllIdle
          /\ buffer.bound = 2
          /\ m \in DOMAIN indices
          /\ regAt[m] = 2
          /\ Len(pushed) >= 3
          /\ pushed[1] = JsonEntry(<< <<"a", "1">> >>)
          /\ pushed[2] = JsonEntry(<< <<"a", "2">> >>)
          /\ pushed[3] = JsonEntry(<< <<"a", "3">> >>) )
        =>
        /\ Len(pushed) = 3 =>
              /\ Window = {1, 2}
              /\ buffer.deque = <<pushed[2], pushed[3]>>
              /\ 0 \notin IndexedIds
              /\ InSeq(2, indices[m])
        /\ (Len(pushed) = 4 /\ pushed[4] = RawEntry("not json")) =>
              /\ Window = {2, 3}
              /\ buffer.deque = <<pushed[3], pushed[4]>>
              /\ 1 \notin IndexedIds
              /\ raw_index = <<3>>
              /\ ~InSeq(3, indices[m])

\* the scenario of C15 without its expectation that id 2 is in the index
C15_ScenarioRest ==
    LET m == ScenarioMethod
    IN  ( /\ AllIdle
          /\ buffer.bound = 2
          /\ m \in DOMAIN indices
          /\ regAt[m] = 2
          /\ Len(pushed) >= 3
          /\ pushed[1] = JsonEntry(<< <<"a", "1">> >>)
          /\ pushed[2] = JsonEntry(<< <<"a", "2">> >>)
          /\ pushed[3] = JsonEntry(<< <<"a", "3">> >>) )
        =>
        /\ Len(pushed) = 3 =>
              /\ Window = {1, 2}
              /\ 0 \notin IndexedIds
        /\ (Len(pushed) = 4 /\ pushed[4] = RawEntry("not json")) =>
              /\ Window = {2, 3}
              /\ 1 \notin IndexedIds
              /\ raw_index = <<3>>
              /\ ~InSeq(3, indices[m])

\* the line without its terminator: a final CR LF or a final LF is dropped
without_terminator(line) ==
    LET n == Len(line)
    IN  IF n >= 2 /\ line[n - 1] = CR /\ line[n] = LF THEN SubSeq(line, 1, n - 2)
        ELSE IF n >= 1 /\ line[n] = LF THEN SubSeq(line, 1, n - 1)
        ELSE line

\* C19: a line that does not decode as an object gives a Raw entry whose
\* bytes are the line without its terminator, whether the line ends with
\* LF alone, with CR LF, or with the end of the input.
C19_TerminatorStripped ==
    (l_entry # None /\ ~json_decode(l_line).ok)
        => l_entry[1] = RawEntry(without_terminator(l_line))

\* the part of C19 the code does: CR LF and unterminated lines
C19_CrLfStripped ==
    ( /\ l_entry # None
      /\ ~json_decode(l_line).ok
      /\ \/ l_line[Len(l_line)] # LF
         \/ (Len(l_line) >= 2 /\ l_line[Len(l_line) - 1] = CR) )
        => l_entry[1] = RawEntry(without_terminator(l_line))

\* C20: nothing is sent on a connection and no session is started for it
\* unless the first client message received was a Handshake with the
\* configured token; a first message of another kind, or another token,
\* ends the connection with NoHandshake or BadAuthToken.
C20_HandshakeGating ==
    /\ (c_sent # <<>> \/ c_out # None \/ c_sendq # <<>> \/ c_session # "none")
          => c_first = Some(Handshake(AuthToken))
    /\ (c_first # None /\ c_first[1][1] # "Handshake") => c_state = "NoHandshake"
    /\ (c_first # None /\ c_first[1][1] = "Handshake" /\ c_first[1][2] # AuthToken)
          => c_state = "BadAuthToken"

C20_Witness ==
    /\ c_first = Some(Handshake(AuthToken))
    /\ c_sent # <<>>
    /\ c_sent[1][1] = "UpdateKeyList"

\* C16: list_indices returns the IndexMethods registered at the call, each
\* once, and changes nothing: buffer, raw index, registry and every index
\* queue are as before; the caller holds the read lock of the registry and
\* no other lock.
C16_ListIndicesReadOnly ==
    [][ \A r \in Readers :
          /\ held'[r] \subseteq {Guard(RegistryLock, "read")}
          /\ held[r] # {} => DOMAIN indices' = DOMAIN indices
          /\ held'[r] # held[r] =>
                UNCHANGED <<buffer, raw_index, indices, pushed, regAt>>
          /\ (held[r] # {} /\ held'[r] = {}) =>
                /\ keys' # None
                /\ Len(keys'[1]) = Cardinality(DOMAIN indices)
                /\ { keys'[1][i] : i \in 1..Len(keys'[1]) } = DOMAIN indices
      ]_vars

C16_Witness ==
    /\ keys # None
    /\ Len(keys[1]) = 2
    /\ DOMAIN indices = StoreMethods
    /\ pushed # <<>>

IsIndexLock(l) == l[1] \in {"raw_index", "index"}

\* C13: during push the calling thread never holds two locks at once: the
\* read lock of the registry is gone before the buffer is write-locked, the
\* buffer lock is gone before an index is locked, and one index lock
\* (raw or secondary) is held at a time.
C13_OneLockAtATime ==
    \A t \in Threads :
        /\ Cardinality(held[t]) <= 1
        /\ \A g, h \in held[t] :
              /\ (g.lock = BufferLock) => (h.lock # RegistryLock)
              /\ IsIndexLock(g.lock) => (h.lock # BufferLock)
              /\ (IsIndexLock(g.lock) /\ IsIndexLock(h.lock)) => g = h

C13_Witness ==
    \E t \in Threads :
        /\ pc[t] = "remove"
        /\ \E g \in held[t] : IsIndexLock(g.lock)
        /\ regAt # <<>>

\* the session takes a ListKeys request off its stream in this step
HandlesListKeys ==
    /\ c_recvq # <<>>
    /\ Head(c_recvq) = ListKeys
    /\ c_recvq' = Tail(c_recvq)

\* the session takes a Handshake off its stream in this step
HandlesHandshake ==
    /\ c_recvq # <<>>
    /\ Head(c_recvq)[1] = "Handshake"
    /\ c_recvq' = Tail(c_recvq)

\* list_indices returns to the session in this step
ListReturns == c_session = "list_indices" /\ c_session' = "send"

\* the session leaves `sink.send` in this step
SendReturns == c_session = "send" /\ c_session' # "send"

\* one message goes to the end of the channel of responses
Answers == Len(c_sendq') = Len(c_sendq) + 1

\* the request taken is answered once: list_indices is called for it, what
\* it returns are the methods registered then, and nothing but the send of
\* that result adds to the channel of responses
AnsweredOnce ==
    /\ HandlesListKeys => c_session' = "list_indices"
    /\ ListReturns =>
          /\ keys' # None
          /\ keys'[1] \in Orderings(DOMAIN indices)
          /\ DOMAIN indices' = DOMAIN indices
    /\ Answers =>
          /\ SendReturns
          /\ c_sendq' = Append(c_sendq, UpdateKeyList(keys[1]))

\* responses leave the channel at its head, one at a time, and are written
\* to the socket in that order, up to a write that fails
ResponsesInOrder ==
    /\ (c_sendq' # c_sendq /\ ~Answers) =>
          /\ c_sendq # <<>>
          /\ c_sendq' = Tail(c_sendq)
          /\ c_out = None
          /\ c_out' = Some(Head(c_sendq))
    /\ c_sent' # c_sent =>
          /\ c_out # None
          /\ c_sent' = Append(c_sent, c_out[1])
          /\ c_out' = None

\* C21 as stated: every ListKeys request the session handles is answered by
\* one UpdateKeyList with the result of list_indices at that moment,
\* answers go out in the order of the requests, and the session ends
\* without error once its stream has ended.
C21_EveryRequestAnswered ==
    [][ /\ AnsweredOnce
        /\ SendReturns => (Answers /\ c_session' = "running")
        /\ ResponsesInOrder
        /\ (ConnOver /\ SessionAlive /\ ~SessionAlive' /\ c_session' # "MultiAuth")
              => c_session' = "ended"
      ]_vars

\* C21, amended: a ListKeys request handled while the connection is open is
\* answered by one UpdateKeyList with the result of list_indices at that
\* moment, answers go out in the order of the requests, and the session
\* ends without error when its stream has ended with no request left in it.
C21_RequestAnsweredWhileOpen ==
    [][ /\ AnsweredOnce
        /\ (SendReturns /\ ~ConnOver) => (Answers /\ c_session' = "running")
        /\ ResponsesInOrder
        /\ (c_recvq = <<>> /\ c_session = "running" /\ c_session' # "running")
              => (ConnOver /\ c_session' = "ended")
      ]_vars

C21_Witness ==
    /\ Len(c_sent) = 2
    /\ c_sent[1] = UpdateKeyList(<<>>)
    /\ c_sent[2][1] = "UpdateKeyList"
    /\ Len(c_sent[2][2]) = 1

\* C28: a Handshake that the established session takes off its stream ends
\* the session with MultiAuth and is not answered; once the session is over
\* it takes no further request and no answer is added.
C28_MultiAuthEndsSession ==
    [][ /\ HandlesHandshake =>
              (c_session' = "MultiAuth" /\ c_sendq' = c_sendq /\ c_sent' = c_sent)
        /\ c_session = "MultiAuth" =>
              /\ c_session' = "MultiAuth"
              /\ c_recvq' = c_recvq
              /\ ~Answers
      ]_vars

C28_Witness ==
    /\ c_session = "MultiAuth"
    /\ c_recvq # <<>>
    /\ Head(c_recvq) = ListKeys

\* C22: Index.remove(id) pops the head exactly when the head equals id; on
\* an empty queue or a head greater than id nothing changes and nothing is
\* raised; on a head less than id a fault is raised and the queue is kept;
\* the queue after the call is the queue before it, or that queue without
\* its head.
C22_RemovePopsMatchingHead ==
    ix_op = "remove" =>
        LET q == ix_before
            popped == q # <<>> /\ ix_queue = Tail(q)
        IN  /\ popped <=> (q # <<>> /\ Head(q) = ix_id)
            /\ ~popped => ix_queue = q
            /\ (q = <<>> \/ Head(q) > ix_id) => (ix_queue = q /\ ix_fault = "none")
            /\ (q # <<>> /\ Head(q) < ix_id) => (ix_queue = q /\ ix_fault # "none")
            /\ (q # <<>> /\ Head(q) = ix_id) => ix_fault = "none"

C22_Witness ==
    /\ ix_op = "remove"
    /\ Len(ix_before) = 2
    /\ Head(ix_before) = ix_id
    /\ ix_queue = Tail(ix_before)

\* C23: with the single writer, a bound of at least 1 and registrations at
\* any point, no assertion of the store fails: not len <= bound of the
\* buffer, not last < id of Index.add, not head = id of Index.remove, not
\* head = id of the raw index.
C23_NoFault ==
    buffer.bound >= 1 => (fault = "none" /\ \A t \in Threads : pc[t] # "panicked")

C23_Witness ==
    /\ buffer.bound >= 1
    /\ fault = "none"
    /\ \E t \in SingleWriter :
          /\ pc[t] = "remove"
          /\ target[t].kind = "Json"
          /\ target[t].matched = {}
          /\ \E m \in DOMAIN indices :
                /\ should_index(m, push_result[t].removed[1][2].fields)
                /\ regAt[m] > push_result[t].removed[1][1]
                /\ indices[m] # <<>>

\* the ids of the Raw entries of the window, in order
RawIdsInWindow ==
    LET ids == [k \in 1..Len(buffer.deque) |-> buffer.start_index + k - 1]
    IN  SelectSeq(ids, LAMBDA i :
                    buffer.deque[i - buffer.start_index + 1].kind = "Raw")

StrictlyIncreasing(q) == \A i \in 1..Len(q) - 1 : q[i] < q[i + 1]

\* C24: after every completed push of the single writer the raw index is
\* strictly increasing and is, in order, the ids of the Raw entries in the
\* window; when a Raw entry is evicted, its id is the head of the raw index
\* at the moment it is removed.
C24_RawIndexMirrorsWindow ==
    [][ /\ AllIdle' =>
              /\ StrictlyIncreasing(raw_index')
              /\ raw_index' = RawIdsInWindow'
        /\ \A t \in SingleWriter :
              (pc[t] = "remove" /\ target[t].kind = "Raw" /\ pc'[t] # "remove") =>
                 /\ raw_index # <<>>
                 /\ Head(raw_index) = push_result[t].removed[1][1]
                 /\ raw_index' = Tail(raw_index)
      ]_vars

C24_Witness ==
    /\ AllIdle
    /\ buffer.start_index >= 1
    /\ pushed[1].kind = "Raw"
    /\ Len(raw_index) = 2
    /\ buffer.deque[1].kind = "Raw"

\* the ids of the window whose push began once m was registered and whose
\* entry is a JsonEntry, in order
JsonIdsSince(m) ==
    LET ids == [k \in 1..Len(buffer.deque) |-> buffer.start_index + k - 1]
    IN  SelectSeq(ids, LAMBDA i : i >= regAt[m] /\ pushed[i + 1].kind = "Json")

\* C27: the IndexMethod with no conditions matches every JsonEntry, the one
\* without fields included: its index holds the id of every JsonEntry
\* pushed while it was registered (and still in the window) and the id of
\* no RawEntry.
C27_EmptyMethodMatchesAllJson ==
    /\ \A e \in EmptyMethodEntries :
          e.kind = "Json" => should_index(EmptyMethod, e.fields)
    /\ EmptyMethod \in DOMAIN indices =>
          /\ \A k \in 1..Len(indices[EmptyMethod]) :
                pushed[indices[EmptyMethod][k] + 1].kind = "Json"
          /\ AllIdle => indices[EmptyMethod] = JsonIdsSince(EmptyMethod)

C27_Witness ==
    /\ AllIdle
    /\ EmptyMethod \in DOMAIN indices
    /\ regAt[EmptyMethod] >= 1
    /\ buffer.deque = <<JsonEntry(<<>>), RawEntry("not json")>>
    /\ Len(indices[EmptyMethod]) = 1
    /\ buffer.start_index >= 2

\* C25: with two threads in push at once no assertion fails under any
\* interleaving of their critical sections: every secondary index is
\* strictly increasing, and when the removal of an evicted id runs the id
\* is the head of the raw index (Raw entry), or no later than the head of
\* each matching secondary index (Json entry).
C25_ConcurrentPushNoFault ==
    /\ fault = "none"
    /\ \A m \in DOMAIN indices : StrictlyIncreasing(indices[m])
    /\ \A t \in Threads :
          pc[t] = "remove" =>
             LET id == push_result[t].removed[1][1]
             IN  IF target[t].kind = "Raw"
                 THEN raw_index # <<>> /\ Head(raw_index) = id
                 ELSE \A m \in target[t].matched :
                         indices[m] = <<>> \/ id <= Head(indices[m])

\* C26: under fair scheduling every push of the writer returns, whatever
\* the task that lists and registers index methods does meanwhile, and
\* every call of should_index returns.
C26_PushCompletes ==
    /\ \A t \in SingleWriter : (pc[t] # "idle") ~> (pc[t] = "idle")
    /\ (m_stage = "scan") ~> (m_result # None)

C26_Witness ==
    /\ pc["w1"] = "rm_target"
    /\ push_result["w1"].removed[1][2].kind = "Json"
    /\ Guard(RegistryLock, "write") \in held["r1"]

====
